---- MODULE Spec2Model ----
(***************************************************************************)
(* Model of blur.py: the batch loop of main and the frame pipeline of      *)
(* process_video (annotation loader, kernel sizing, mask rasterization,    *)
(* compositing).                                                           *)
(*                                                                         *)
(* Numbers read from the annotation document are decimal strings; they are *)
(* represented in tenths (107 stands for "10.7") so that int(float(s))     *)
(* is a real truncation.  Frames are single-channel: the code applies the  *)
(* same mask to every colour channel (mask[:, :, None]).                   *)
(***************************************************************************)
EXTENDS Integers, Sequences, FiniteSets, TLC

\* ------------------------------------------------------------------ bounds
\* Frame geometry reported by the decoder (cap.get), and sizes of the inputs.
Width == 7
Height == 2
MaxFrames == 2
MaxTriplets == 3
MaxElements == 2

\* ------------------------------------------------------------ arithmetic
Max(a, b) == IF a >= b THEN a ELSE b
Min(a, b) == IF a <= b THEN a ELSE b
Abs(a) == IF a >= 0 THEN a ELSE -a

\* Python int(x) of a real: truncation toward zero.  q / d with d > 0.
TruncDiv(q, d) == IF q >= 0 THEN q \div d ELSE -((-q) \div d)

\* int(float(s)) for an attribute string s holding t tenths.
IntOfFloat(t) == TruncDiv(t, 10)

\* int(v) of a float kept in tenths (ellipse centre and radii).
IntOf(t) == TruncDiv(t, 10)

\* The magnitudes below 1300 at which the double product 0.35 * m falls just
\* short of the integer 35 * m / 100 (0.35 is not a double).
ShortProducts == {180, 340, 360, 660, 680, 700, 720}

\* int(0.35 * m) in double precision, exact for |m| < 1300.
KernelBase(m) ==
    LET q == (35 * Abs(m)) \div 100
        a == IF Abs(m) \in ShortProducts THEN q - 1 ELSE q
    IN  IF m >= 0 THEN a ELSE -a

\* The kernel size taken from the smaller side of the extent.
KernelSizeOfMin(w, h) ==
    LET k == KernelBase(Min(w, h))
    IN  IF k % 2 = 0 THEN k + 1 ELSE k

\* The kernel size without the parity adjustment.
KernelSizeNoParity(w, h) == KernelBase(Max(w, h))

\* k = int(0.35 * max(w, h)); if k % 2 == 0: k += 1   (Python % is the
\* non-negative remainder, as is TLA+ %).
KernelSize(w, h) ==
    LET k == KernelBase(Max(w, h))
    IN  IF k % 2 = 0 THEN k + 1 ELSE k

\* ----------------------------------------------------------------- frames
Pixels == (0 .. Width - 1) \X (0 .. Height - 1)

\* Source frame contents the decoder can deliver.
Gradient == [p \in Pixels |-> (p[1] * p[1] * 9 + p[2] * 37) % 256]
Checker == [p \in Pixels |-> IF (p[1] + p[2]) % 2 = 0 THEN 0 ELSE 255]
FramePatterns == {Gradient, Checker}

RECURSIVE SeqsUpTo(_, _)
SeqsUpTo(S, n) ==
    IF n = 0 THEN {<<>>}
    ELSE LET shorter == SeqsUpTo(S, n - 1)
         IN  shorter \cup {Append(s, e) : s \in {t \in shorter : Len(t) = n - 1}, e \in S}

Videos == SeqsUpTo(FramePatterns, MaxFrames)

\* ------------------------------------------------------- cv2.GaussianBlur
RECURSIVE SeqSum(_)
SeqSum(s) ==
    IF Len(s) = 0 THEN 0
    ELSE IF Len(s) = 1 THEN s[1]
    ELSE SeqSum(SubSeq(s, 1, Len(s) \div 2))
         + SeqSum(SubSeq(s, Len(s) \div 2 + 1, Len(s)))

RECURSIVE Binomial(_, _)
Binomial(n, j) == IF j = 0 THEN 1 ELSE (Binomial(n, j - 1) * (n - j + 1)) \div j

BinomialRow(k) == [i \in 1 .. k |-> Binomial(k - 1, i - 1)]

\* Kernel coefficients for sigma = 0: the fixed small kernels of sizes 1, 3,
\* 5 and 7; larger sizes are a sampled Gaussian, stood for by a binomial row
\* up to size 23 and by a triangular row beyond.
GaussianWeights(k) ==
    IF k = 7 THEN <<2, 7, 14, 18, 14, 7, 2>>
    ELSE IF k <= 23 THEN BinomialRow(k)
    ELSE [i \in 1 .. k |-> Min(i, k + 1 - i)]

\* BORDER_REFLECT_101 index mapping into 0 .. n-1.
RECURSIVE Reflect101(_, _)
Reflect101(i, n) ==
    IF n = 1 THEN 0
    ELSE IF i < 0 THEN Reflect101(-i, n)
    ELSE IF i >= n THEN Reflect101(2 * (n - 1) - i, n)
    ELSE i

\* cv2.GaussianBlur rejects a kernel size that is not positive and odd.
BlurRaises(k) == k <= 0 \/ k % 2 = 0

\* cv2.GaussianBlur(frame, (k, k), 0) for a positive odd k: a horizontal and
\* a vertical weighted average, each rounded to nearest; k = 1 copies the
\* frame.
GaussianBlur(f, k) ==
    LET wts == GaussianWeights(k)
        rad == (k - 1) \div 2
        den == SeqSum(wts)
        rowpass == [p \in Pixels |->
                      (SeqSum([i \in 1 .. k |->
                          wts[i] * f[<<Reflect101(p[1] + i - 1 - rad, Width), p[2]>>]])
                       + den \div 2) \div den]
    IN  [p \in Pixels |->
            (SeqSum([j \in 1 .. k |->
                wts[j] * rowpass[<<p[1], Reflect101(p[2] + j - 1 - rad, Height)>>]])
             + den \div 2) \div den]

\* ------------------------------------------------------ mask rasterizers
\* cv2.rectangle(mask, (x1, y1), (x2, y2), 255, -1): both corners inclusive.
BoxMask(x1, y1, x2, y2) ==
    {p \in Pixels : x1 <= p[1] /\ p[1] <= x2 /\ y1 <= p[2] /\ p[2] <= y2}

\* A rasterizer that also rejects a zero axis.
EllipseRaisesOnZero(rx, ry) == rx <= 0 \/ ry <= 0

\* cv2.ellipse rejects negative axes.
EllipseRaises(rx, ry) == rx < 0 \/ ry < 0

\* cv2.ellipse(mask, (cx, cy), (rx, ry), 0, 0, 360, 255, -1) for axes >= 0:
\* the pixels of the frame on or inside the ellipse (a zero axis gives a
\* segment, two zero axes the centre pixel).
EllipseMask(cx, cy, rx, ry) ==
    {p \in Pixels :
        /\ Abs(p[1] - cx) <= rx
        /\ Abs(p[2] - cy) <= ry
        /\ ry * ry * (p[1] - cx) * (p[1] - cx) + rx * rx * (p[2] - cy) * (p[2] - cy)
              <= rx * rx * ry * ry}

OnSegment(p, a, b) ==
    /\ (b[1] - a[1]) * (p[2] - a[2]) = (b[2] - a[2]) * (p[1] - a[1])
    /\ Min(a[1], b[1]) <= p[1] /\ p[1] <= Max(a[1], b[1])
    /\ Min(a[2], b[2]) <= p[2] /\ p[2] <= Max(a[2], b[2])

\* The ray from p toward +x crosses the edge a-b.
Crosses(p, a, b) ==
    /\ (a[2] > p[2]) # (b[2] > p[2])
    /\ LET dy == b[2] - a[2]
           lhs == (p[1] - a[1]) * dy
           rhs == (p[2] - a[2]) * (b[1] - a[1])
       IN  IF dy > 0 THEN lhs < rhs ELSE lhs > rhs

\* cv2.fillPoly(mask, [pts], 255): boundary pixels and the even-odd interior
\* of the closed vertex sequence.
PolygonMask(pts) ==
    LET n == Len(pts)
        nxt(i) == pts[(i % n) + 1]
    IN  {p \in Pixels :
            \/ \E i \in 1 .. n : OnSegment(p, pts[i], nxt(i))
            \/ Cardinality({i \in 1 .. n : Crosses(p, pts[i], nxt(i))}) % 2 = 1}

\* The mean of the frame and the blurred copy where the mask is set.
CompositeBlend(mask, blurred, f) ==
    [p \in Pixels |-> IF p \in mask THEN (f[p] + blurred[p]) \div 2 ELSE f[p]]

\* The blurred copy taken where the mask is not set.
CompositeOutside(mask, blurred, f) ==
    [p \in Pixels |-> IF p \in mask THEN f[p] ELSE blurred[p]]

\* The blurred copy taken everywhere, the mask ignored.
CompositeEverywhere(mask, blurred, f) == blurred

\* np.where(mask[:, :, None] == 255, blurred_full, frame)
Composite(mask, blurred, f) ==
    [p \in Pixels |-> IF p \in mask THEN blurred[p] ELSE f[p]]

\* ------------------------------------------------------ annotation loader
\* A document is [wellformed, tracks]; a track is a sequence of elements in
\* document order; an element with valid = FALSE lacks a required attribute
\* or holds a non-numeric one.
ParseBox(e) ==
    [type |-> "box",
     x1 |-> IntOfFloat(e.xtl), y1 |-> IntOfFloat(e.ytl),
     x2 |-> IntOfFloat(e.xbr), y2 |-> IntOfFloat(e.ybr),
     occluded |-> e.occluded]

ParseEllipse(e) ==
    [type |-> "ellipse", cx |-> e.cx, cy |-> e.cy, rx |-> e.rx, ry |-> e.ry,
     occluded |-> e.occluded]

ParsePolygon(e) ==
    [type |-> "polygon",
     points |-> [i \in 1 .. Len(e.points) |->
                    <<IntOfFloat(e.points[i][1]), IntOfFloat(e.points[i][2])>>],
     occluded |-> IF e.has_occluded THEN e.occluded ELSE 0]

ParseElement(e) ==
    IF e.tag = "box" THEN ParseBox(e)
    ELSE IF e.tag = "ellipse" THEN ParseEllipse(e)
    ELSE ParsePolygon(e)

\* One pass over a track that takes its elements as they stand in the
\* document.
TrackEntriesInDocumentOrder(t) ==
    [i \in 1 .. Len(t) |-> [frame |-> t[i].frame, region |-> ParseElement(t[i])]]

\* One pass of the loop over tracks: the track's boxes, then its ellipses,
\* then its polygons, each as (frame, region).
TrackEntries(t) ==
    LET IsBox(e) == e.tag = "box"
        IsEllipse(e) == e.tag = "ellipse"
        IsPolygon(e) == e.tag = "polygon"
        ordered == SelectSeq(t, IsBox) \o SelectSeq(t, IsEllipse) \o SelectSeq(t, IsPolygon)
    IN  [i \in 1 .. Len(ordered) |->
            [frame |-> ordered[i].frame, region |-> ParseElement(ordered[i])]]

RECURSIVE DocEntries(_)
DocEntries(tracks) ==
    IF tracks = <<>> THEN <<>>
    ELSE TrackEntries(Head(tracks)) \o DocEntries(Tail(tracks))

\* annotations.setdefault(frame, []).append(region) over all entries.
LoadAnnotations(doc) ==
    LET es == DocEntries(doc.tracks)
    IN  [f \in {es[i].frame : i \in 1 .. Len(es)} |->
            LET AtF(en) == en.frame = f
                sel == SelectSeq(es, AtF)
            IN  [i \in 1 .. Len(sel) |-> sel[i].region]]

\* ET.parse raises on a missing or malformed document; attrib[...], int()
\* and float() raise on a missing or non-numeric attribute.
ParseRaises(t) ==
    \/ ~t.xml_exists
    \/ ~t.doc.wellformed
    \/ \E i \in 1 .. Len(t.doc.tracks) :
          \E j \in 1 .. Len(t.doc.tracks[i]) : ~t.doc.tracks[i][j].valid

\* The lookup with frame numbers taken as one-based.
RegionsAtOneBased(ann, i) == IF i + 1 \in DOMAIN ann THEN ann[i + 1] ELSE <<>>

\* annotations.get(frame_idx, [])
RegionsAt(ann, i) == IF i \in DOMAIN ann THEN ann[i] ELSE <<>>

\* --------------------------------------------------- one region of a frame
\* The occluded flag never honoured.
IsOccludedNever(region) == FALSE

\* occluded = region[-1]; if occluded == 1: continue
IsOccluded(region) == region.occluded = 1

\* A clamp into 0 .. n, one past the last column or row.
ClipToSize(v, n) == Max(0, Min(v, n))

\* max(0, min(v, n - 1))
Clip(v, n) == Max(0, Min(v, n - 1))

\* x1 = max(0, min(x1, width - 1)) ... for the four coordinates of a box.
ClipBox(region) ==
    [x1 |-> Clip(region.x1, Width), y1 |-> Clip(region.y1, Height),
     x2 |-> Clip(region.x2, Width), y2 |-> Clip(region.y2, Height)]

MinOf(S) == CHOOSE v \in S : \A u \in S : v <= u
MaxOf(S) == CHOOSE v \in S : \A u \in S : v >= u

\* (w, h) as each branch computes it: the clipped box, twice the truncated
\* radii, the span of the polygon's points (none for an empty point list,
\* where np.min raises).
BoundingExtent(region) ==
    IF region.type = "box"
    THEN LET b == ClipBox(region) IN <<b.x2 - b.x1, b.y2 - b.y1>>
    ELSE IF region.type = "ellipse"
    THEN <<IntOf(region.rx) * 2, IntOf(region.ry) * 2>>
    ELSE LET pts == region.points
             xs == {pts[i][1] : i \in 1 .. Len(pts)}
             ys == {pts[i][2] : i \in 1 .. Len(pts)}
         IN  IF pts = <<>> THEN <<0, 0>>
             ELSE <<MaxOf(xs) - MinOf(xs), MaxOf(ys) - MinOf(ys)>>

\* The pixels the region's rasterizer sets to 255 in the mask.
RegionMask(region) ==
    IF region.type = "box"
    THEN LET b == ClipBox(region) IN BoxMask(b.x1, b.y1, b.x2, b.y2)
    ELSE IF region.type = "ellipse"
    THEN EllipseMask(IntOf(region.cx), IntOf(region.cy), IntOf(region.rx), IntOf(region.ry))
    ELSE PolygonMask(region.points)

\* Each branch yields [status, k, frame]: "skipped" (continue), "blurred"
\* (composited and counted) or "raised"; k is the kernel size handed to
\* cv2.GaussianBlur, 0 when the blur is not reached.

\* The box branch without the guard on the clipped extent.
BoxStepUnguarded(region, f) ==
    LET k == KernelSize(BoundingExtent(region)[1], BoundingExtent(region)[2])
    IN  IF BlurRaises(k) THEN [status |-> "raised", k |-> k, frame |-> f]
        ELSE [status |-> "blurred", k |-> k,
              frame |-> Composite(RegionMask(region), GaussianBlur(f, k), f)]

BoxStep(region, f) ==
    LET w == BoundingExtent(region)[1]
        h == BoundingExtent(region)[2]
        k == KernelSize(w, h)
    IN  IF w <= 0 \/ h <= 0 THEN [status |-> "skipped", k |-> 0, frame |-> f]
        ELSE IF BlurRaises(k) THEN [status |-> "raised", k |-> k, frame |-> f]
        ELSE [status |-> "blurred", k |-> k,
              frame |-> Composite(RegionMask(region), GaussianBlur(f, k), f)]

EllipseStep(region, f) ==
    LET w == BoundingExtent(region)[1]
        h == BoundingExtent(region)[2]
        k == KernelSize(w, h)
    IN  IF BlurRaises(k) \/ EllipseRaises(IntOf(region.rx), IntOf(region.ry))
        THEN [status |-> "raised", k |-> k, frame |-> f]
        ELSE [status |-> "blurred", k |-> k,
              frame |-> Composite(RegionMask(region), GaussianBlur(f, k), f)]

PolygonStep(region, f) ==
    LET w == BoundingExtent(region)[1]
        h == BoundingExtent(region)[2]
        k == KernelSize(w, h)
    IN  IF region.points = <<>> THEN [status |-> "raised", k |-> 0, frame |-> f]
        ELSE IF w <= 0 \/ h <= 0 THEN [status |-> "skipped", k |-> 0, frame |-> f]
        ELSE IF BlurRaises(k) THEN [status |-> "raised", k |-> k, frame |-> f]
        ELSE [status |-> "blurred", k |-> k,
              frame |-> Composite(RegionMask(region), GaussianBlur(f, k), f)]

\* The region loop counting an occluded region as processed.
RegionStepCountsOccluded(region, f) ==
    IF IsOccluded(region) THEN [status |-> "blurred", k |-> 0, frame |-> f]
    ELSE IF region.type = "box" THEN BoxStep(region, f)
    ELSE IF region.type = "ellipse" THEN EllipseStep(region, f)
    ELSE PolygonStep(region, f)

RegionStep(region, f) ==
    IF IsOccluded(region) THEN [status |-> "skipped", k |-> 0, frame |-> f]
    ELSE IF region.type = "box" THEN BoxStep(region, f)
    ELSE IF region.type = "ellipse" THEN EllipseStep(region, f)
    ELSE PolygonStep(region, f)

\* ----------------------------------------------------------------- inputs
Box(f, occ, xtl, ytl, xbr, ybr) ==
    [tag |-> "box", valid |-> TRUE, frame |-> f, occluded |-> occ,
     xtl |-> xtl, ytl |-> ytl, xbr |-> xbr, ybr |-> ybr]

Ellipse(f, occ, cx, cy, rx, ry) ==
    [tag |-> "ellipse", valid |-> TRUE, frame |-> f, occluded |-> occ,
     cx |-> cx, cy |-> cy, rx |-> rx, ry |-> ry]

Polygon(f, has_occ, occ, points) ==
    [tag |-> "polygon", valid |-> TRUE, frame |-> f, has_occluded |-> has_occ,
     occluded |-> occ, points |-> points]

InvalidElement == [tag |-> "box", valid |-> FALSE]

\* A box over the whole frame ("-0.5" to beyond the right and bottom edges).
BoxWide(f, occ) == Box(f, occ, -5, 0, 10 * Width + 25, 10 * Height)
\* An ellipse around the top-left corner, radii "3.9" and "1.2".
EllipseCorner(f) == Ellipse(f, 0, 4, 0, 39, 12)
\* An ellipse with radii "-3.0".
EllipseNegative(f) == Ellipse(f, 0, 30, 10, -30, -30)
\* A triangle from the top-left corner, without an occluded attribute.
Triangle(f) == Polygon(f, FALSE, 0, <<<<0, 0>>, <<60, 0>>, <<0, 100>>>>)

Pool ==
    {BoxWide(0, 0), BoxWide(1, 0), BoxWide(0, 1), EllipseCorner(0),
     EllipseNegative(1), Triangle(1), InvalidElement}

Doc(tracks) == [wellformed |-> TRUE, tracks |-> tracks]
MalformedDoc == [wellformed |-> FALSE, tracks |-> <<>>]

\* Documents of one track with up to MaxElements elements, and of two tracks
\* with one element each.
Docs ==
    {MalformedDoc, Doc(<<>>)}
    \cup {Doc(<<t>>) : t \in SeqsUpTo(Pool, MaxElements)}
    \cup {Doc(<<<<a>>, <<b>>>>) : a \in Pool, b \in Pool}

\* What one triplet's paths lead to: whether the input video and the
\* annotation file exist, the annotation document, whether the decoder and
\* the encoder open, and the frames the decoder yields before end of stream.
Triplet(in_ok, xml_ok, doc, cap_ok, out_ok, video) ==
    [input_exists |-> in_ok, xml_exists |-> xml_ok, doc |-> doc,
     cap_ok |-> cap_ok, out_ok |-> out_ok, video |-> video]

GoodDoc == Doc(<<<<BoxWide(0, 0)>>>>)
GoodTriplet == Triplet(TRUE, TRUE, GoodDoc, TRUE, TRUE, <<Gradient>>)

\* The triplets of a batch run: one good triplet and one per kind of failure
\* (a missing input cannot be opened by the decoder either; a missing
\* annotation file has no document).
BatchTriplets ==
    {GoodTriplet,
     Triplet(FALSE, TRUE, GoodDoc, FALSE, TRUE, <<>>),
     Triplet(TRUE, FALSE, MalformedDoc, TRUE, TRUE, <<Gradient>>),
     Triplet(TRUE, TRUE, MalformedDoc, TRUE, TRUE, <<Gradient>>),
     Triplet(TRUE, TRUE, GoodDoc, FALSE, TRUE, <<Gradient>>),
     Triplet(TRUE, TRUE, GoodDoc, TRUE, FALSE, <<Gradient>>),
     Triplet(TRUE, TRUE, Doc(<<<<EllipseNegative(0)>>>>), TRUE, TRUE, <<Gradient>>)}

\* The triplets of a single-video run: every document over every video.
SingleTriplets ==
    {Triplet(TRUE, TRUE, d, TRUE, TRUE, v) : d \in Docs, v \in Videos}

\* Single regions over a wide range of geometry, one per document.
BoxCoordsX == {-15, 0, 30, 10 * Width - 5, 200}
BoxCoordsY == {-5, 0, 10, 10 * Height + 5}
Radii == {-30, -20, -10, -5, 0, 5, 10, 30, 60, 100, 145, 200, 300}
PointLists ==
    {<<>>,
     <<<<20, 10>>>>,
     <<<<0, 0>>, <<50, 0>>, <<30, 0>>>>,
     <<<<0, 0>>, <<20, 0>>, <<0, 10>>>>,
     <<<<0, 0>>, <<300, 0>>, <<0, 400>>>>,
     <<<<0, 0>>, <<3600, 0>>, <<0, 100>>>>,
     <<<<-100, -100>>, <<45, -100>>, <<45, 15>>, <<-100, 15>>>>,
     <<<<10, 0>>, <<55, 19>>, <<55, 0>>, <<10, 19>>>>}

WideElements ==
    {Box(0, 0, a, b, c, d) : a \in BoxCoordsX, b \in BoxCoordsY, c \in BoxCoordsX, d \in BoxCoordsY}
    \cup {Ellipse(0, 0, 30, 10, rx, ry) : rx \in Radii, ry \in Radii}
    \cup {Polygon(0, TRUE, 0, pts) : pts \in PointLists}

WideTriplets ==
    {Triplet(TRUE, TRUE, Doc(<<<<e>>>>), TRUE, TRUE, <<v>>) :
        e \in WideElements, v \in FramePatterns}

RECURSIVE SeqsOfLen(_, _)
SeqsOfLen(S, n) ==
    IF n = 0 THEN {<<>>}
    ELSE {Append(s, e) : s \in SeqsOfLen(S, n - 1), e \in S}

\* ------------------------------------------------------------------ state
VARIABLES
    argc,               \* len(sys.argv)
    files,              \* what the triplets of sys.argv lead to, in order
    main_pc,            \* "start", "loop", "calling", "done", "usage", "crashed"
    n_tasks,            \* len(video_tasks)
    idx,                \* triplets the batch loop has finished
    success_count,
    failure_count,
    exit_status,        \* -1 while the process runs
    pv_pc,              \* "idle", "loop_head", "regions", "returned", "raised"
    ret,                \* return value of process_video
    cap_open,           \* the decoder handle is open
    out_open,           \* the encoder handle is open
    annotations,
    frame_idx,
    processed_regions,
    frame,              \* the frame being processed
    r,                  \* position of the for loop in regions
    nread,              \* frames the decoder has delivered
    written,            \* frames handed to out.write, in order
    last_k,             \* kernel size of the latest cv2.GaussianBlur call, 0 if none
    opens,              \* handles opened since the start of the run
    true_returns,       \* calls of process_video that returned True
    \* export_annotations.py
    entry,              \* the function called: "none", "process_task", "poll_request"
    ex_pc,              \* "idle", "start", "export", "polling", "polled", "download",
                        \* "fallback", "returned", "raised"
    no_skip,            \* args.no_skip_if_zip_exists
    zip,                \* <task>_export.zip: "absent", "empty", "old", "partial", "new"
    fallback_zip,       \* <task>_from_fallback.zip: "absent", "new"
    max_polls,          \* the max_polls argument of poll_request
    polls,              \* status requests issued by poll_request
    last_poll,          \* the response to the latest status request
    poll_res,           \* what poll_request returned: "none", "ok", "not_ok"
    start_data,         \* the body of the accepted export start
    posts,              \* export starts issued
    downloads,          \* downloads of the export result issued
    fallback_calls      \* calls of checker_fallbacks

vars ==
    <<argc, files, main_pc, n_tasks, idx, success_count, failure_count, exit_status,
      pv_pc, ret, cap_open, out_open, annotations, frame_idx, processed_regions,
      frame, r, nread, written, last_k, opens, true_returns,
      entry, ex_pc, no_skip, zip, fallback_zip, max_polls, polls, last_poll, poll_res,
      start_data, posts, downloads, fallback_calls>>

export_vars ==
    <<entry, ex_pc, no_skip, zip, fallback_zip, max_polls, polls, last_poll, poll_res,
      start_data, posts, downloads, fallback_calls>>

main_vars == <<n_tasks, idx, success_count, failure_count>>
frame_vars == <<annotations, frame_idx, processed_regions, frame, r, nread, written, last_k>>

NoFrame == [p \in Pixels |-> 0]

PvIdle ==
    /\ pv_pc = "idle"
    /\ ret = FALSE
    /\ cap_open = FALSE
    /\ out_open = FALSE
    /\ annotations = <<>>
    /\ frame_idx = 0
    /\ processed_regions = 0
    /\ frame = NoFrame
    /\ r = 0
    /\ nread = 0
    /\ written = <<>>
    /\ last_k = 0

\* No status response yet, no accepted export start yet.
NoPoll == [code |-> 0, status |-> "none", result_url |-> FALSE]
NoStart == [rq_id |-> FALSE, result_url |-> FALSE]

\* export_annotations.py is not running.
ExIdle ==
    /\ entry = "none"
    /\ ex_pc = "idle"
    /\ no_skip = FALSE
    /\ zip = "absent"
    /\ fallback_zip = "absent"
    /\ max_polls = 0
    /\ polls = 0
    /\ last_poll = NoPoll
    /\ poll_res = "none"
    /\ start_data = NoStart
    /\ posts = 0
    /\ downloads = 0
    /\ fallback_calls = 0

Init ==
    /\ \/ \E n \in 0 .. MaxTriplets, extra \in 0 .. 2 :
            /\ argc = 1 + 3 * n + extra
            /\ files \in SeqsOfLen(BatchTriplets, n)
       \/ /\ argc = 4
          /\ files \in SeqsOfLen(SingleTriplets \cup WideTriplets, 1)
    /\ main_pc = "start"
    /\ n_tasks = 0
    /\ idx = 0
    /\ success_count = 0
    /\ failure_count = 0
    /\ exit_status = -1
    /\ opens = 0
    /\ true_returns = 0
    /\ PvIdle
    /\ ExIdle

\* ------------------------------------------------------------------- main
\* The check of the count alone, without the division by three.
BadArgvTooFew(n) == n < 4

\* if len(sys.argv) < 4 or (len(sys.argv) - 1) % 3 != 0
BadArgv(n) == n < 4 \/ (n - 1) % 3 # 0

\* success_count incremented whatever process_video returns.
CountSuccessAlways(result, count) == count + 1

\* if process_video(...): success_count += 1 / else: failure_count += 1
CountSuccess(result, count) == IF result THEN count + 1 ELSE count

CountFailure(result, count) == IF result THEN count ELSE count + 1

\* if failure_count > 0: sys.exit(1); otherwise the interpreter exits with 0.
ExitCode(failures) == IF failures > 0 THEN 1 ELSE 0

\* An exception that leaves process_video: main catches nothing, so the
\* interpreter prints the traceback and exits with status 1.
Uncaught ==
    /\ pv_pc' = "raised"
    /\ main_pc' = "crashed"
    /\ exit_status' = 1

ParseArgs ==
    /\ main_pc = "start"
    /\ IF BadArgv(argc)
       THEN /\ main_pc' = "usage"
            /\ exit_status' = 1
            /\ UNCHANGED main_vars
       ELSE /\ main_pc' = "loop"
            /\ n_tasks' = (argc - 1) \div 3
            /\ idx' = 0
            /\ success_count' = 0
            /\ failure_count' = 0
            /\ UNCHANGED exit_status
    /\ UNCHANGED <<export_vars, argc, files, pv_pc, ret, cap_open, out_open, frame_vars, opens, true_returns>>

\* ---------------------------------------------------------- process_video
\* The annotation file taken to exist without a check.
XmlFoundAlways(t) == TRUE

\* os.path.exists(input_video), os.path.exists(xml_file)
InputFound(t) == t.input_exists

XmlFound(t) == t.xml_exists

\* The call from the batch loop up to the frame loop: existence checks,
\* annotation loading, opening the decoder and the encoder.
CallProcessVideo ==
    /\ main_pc = "loop"
    /\ idx < n_tasks
    /\ LET t == files[idx + 1]
       IN  IF ~InputFound(t) \/ ~XmlFound(t)
           THEN /\ pv_pc' = "returned"
                /\ ret' = FALSE
                /\ main_pc' = "calling"
                /\ UNCHANGED <<exit_status, cap_open, out_open, annotations, opens>>
           ELSE IF ParseRaises(t)
           THEN /\ Uncaught
                /\ UNCHANGED <<ret, cap_open, out_open, annotations, opens>>
           ELSE IF ~t.cap_ok
           THEN /\ pv_pc' = "returned"
                /\ ret' = FALSE
                /\ main_pc' = "calling"
                /\ annotations' = LoadAnnotations(t.doc)
                /\ UNCHANGED <<exit_status, cap_open, out_open, opens>>
           ELSE IF ~t.out_ok
           THEN \* the decoder was opened, and is released before the return
                /\ pv_pc' = "returned"
                /\ ret' = FALSE
                /\ main_pc' = "calling"
                /\ annotations' = LoadAnnotations(t.doc)
                /\ opens' = opens + 1
                /\ UNCHANGED <<exit_status, cap_open, out_open>>
           ELSE /\ pv_pc' = "loop_head"
                /\ main_pc' = "calling"
                /\ annotations' = LoadAnnotations(t.doc)
                /\ cap_open' = TRUE
                /\ out_open' = TRUE
                /\ opens' = opens + 2
                /\ UNCHANGED <<exit_status, ret>>
    /\ frame_idx' = 0
    /\ processed_regions' = 0
    /\ UNCHANGED <<export_vars, argc, files, main_vars, frame, r, nread, written, last_k, true_returns>>

\* ret, frame = cap.read() delivering a frame; regions = annotations.get(...)
ReadFrame ==
    /\ pv_pc = "loop_head"
    /\ cap_open
    /\ nread < Len(files[idx + 1].video)
    /\ frame' = files[idx + 1].video[nread + 1]
    /\ nread' = nread + 1
    /\ r' = 1
    /\ pv_pc' = "regions"
    /\ UNCHANGED <<export_vars, argc, files, main_pc, main_vars, exit_status, ret, cap_open, out_open,
                   annotations, frame_idx, processed_regions, written, last_k, opens,
                   true_returns>>

\* The loop ends (cap.read() reports no frame); cap.release(),
\* out.release(), return True.
EndOfStream ==
    /\ pv_pc = "loop_head"
    /\ ~cap_open \/ nread = Len(files[idx + 1].video)
    /\ cap_open' = FALSE
    /\ out_open' = FALSE
    /\ ret' = TRUE
    /\ true_returns' = true_returns + 1
    /\ pv_pc' = "returned"
    /\ UNCHANGED <<export_vars, argc, files, main_pc, main_vars, exit_status, frame_vars, opens>>

\* One iteration of "for region in regions".
ProcessRegion ==
    /\ pv_pc = "regions"
    /\ r <= Len(RegionsAt(annotations, frame_idx))
    /\ LET out == RegionStep(RegionsAt(annotations, frame_idx)[r], frame)
       IN  IF out.status = "raised"
           THEN /\ Uncaught
                /\ last_k' = out.k
                /\ UNCHANGED <<frame, processed_regions, r>>
           ELSE /\ frame' = out.frame
                /\ processed_regions' =
                      IF out.status = "blurred" THEN processed_regions + 1
                      ELSE processed_regions
                /\ last_k' = IF out.status = "blurred" THEN out.k ELSE last_k
                /\ r' = r + 1
                /\ UNCHANGED <<pv_pc, main_pc, exit_status>>
    /\ UNCHANGED <<export_vars, argc, files, main_vars, ret, cap_open, out_open, annotations, frame_idx,
                   nread, written, opens, true_returns>>

\* out.write(frame); frame_idx += 1
WriteFrame ==
    /\ pv_pc = "regions"
    /\ r > Len(RegionsAt(annotations, frame_idx))
    /\ written' = Append(written, frame)
    /\ frame_idx' = frame_idx + 1
    /\ pv_pc' = "loop_head"
    /\ UNCHANGED <<export_vars, argc, files, main_pc, main_vars, exit_status, ret, cap_open, out_open,
                   annotations, processed_regions, frame, r, nread, last_k, opens,
                   true_returns>>

\* The batch loop takes the return value and moves to the next triplet; the
\* locals of the finished call are gone.
HandleReturn ==
    /\ main_pc = "calling"
    /\ pv_pc = "returned"
    /\ success_count' = CountSuccess(ret, success_count)
    /\ failure_count' = CountFailure(ret, failure_count)
    /\ idx' = idx + 1
    /\ main_pc' = "loop"
    /\ pv_pc' = "idle"
    /\ ret' = FALSE
    /\ cap_open' = FALSE
    /\ out_open' = FALSE
    /\ annotations' = <<>>
    /\ frame_idx' = 0
    /\ processed_regions' = 0
    /\ frame' = NoFrame
    /\ r' = 0
    /\ nread' = 0
    /\ written' = <<>>
    /\ last_k' = 0
    /\ UNCHANGED <<export_vars, argc, files, n_tasks, exit_status, opens, true_returns>>

\* The loop is over: summary and exit status.
Summary ==
    /\ main_pc = "loop"
    /\ idx = n_tasks
    /\ exit_status' = ExitCode(failure_count)
    /\ main_pc' = "done"
    /\ UNCHANGED <<export_vars, argc, files, main_vars, pv_pc, ret, cap_open, out_open, frame_vars,
                   opens, true_returns>>

Next ==
    \/ ParseArgs
    \/ CallProcessVideo
    \/ ReadFrame
    \/ EndOfStream
    \/ ProcessRegion
    \/ WriteFrame
    \/ HandleReturn
    \/ Summary

Spec == Init /\ [][Next]_vars

\* The interpreter runs the one thread of the program on: a step that can be
\* taken is taken (cap.read() and out.write() block but come back).
FairSpec == Spec /\ WF_vars(Next)

\* --------------------------------------------------- export_annotations.py
MAX_POLLS == 60

\* The largest max_polls handed to poll_request by a caller of its own.
MaxPollsArg == 3

blur_vars ==
    <<argc, files, main_pc, n_tasks, idx, success_count, failure_count, exit_status,
      pv_pc, ret, cap_open, out_open, annotations, frame_idx, processed_regions,
      frame, r, nread, written, last_k, opens, true_returns>>

\* blur.py is not running.
BlurNotRun ==
    /\ argc = 1
    /\ files = <<>>
    /\ main_pc = "start"
    /\ n_tasks = 0
    /\ idx = 0
    /\ success_count = 0
    /\ failure_count = 0
    /\ exit_status = -1
    /\ opens = 0
    /\ true_returns = 0
    /\ PvIdle

\* A call of process_task as main makes it (max_polls is the default of
\* poll_request), or a call of poll_request for an export under way.
ExportInit ==
    /\ BlurNotRun
    /\ \/ /\ entry = "process_task"
          /\ ex_pc = "start"
          /\ no_skip \in BOOLEAN
          /\ zip \in {"absent", "empty", "old"}
          /\ max_polls = MAX_POLLS
       \/ /\ entry = "poll_request"
          /\ ex_pc = "polling"
          /\ no_skip = FALSE
          /\ zip = "absent"
          /\ max_polls \in 0 .. MaxPollsArg
    /\ fallback_zip = "absent"
    /\ polls = 0
    /\ last_poll = NoPoll
    /\ poll_res = "none"
    /\ start_data = NoStart
    /\ posts = 0
    /\ downloads = 0
    /\ fallback_calls = 0

\* The command-line flag taken as the value of skip_if_zip_exists.
SkipIfZipExistsAsGiven(flag) == flag

\* skip_if_zip_exists = not args.no_skip_if_zip_exists
SkipIfZipExists(flag) == ~flag

\* os.path.exists(zip_path) and os.path.getsize(zip_path) > 0
ZipPresent(z) == z \notin {"absent", "empty"}

\* The top of process_task: the existing zip ends the call, or the export
\* goes on.
SkipCheck ==
    /\ ex_pc = "start"
    /\ ex_pc' = IF SkipIfZipExists(no_skip) /\ ZipPresent(zip) THEN "returned" ELSE "export"
    /\ UNCHANGED <<blur_vars, entry, no_skip, zip, fallback_zip, max_polls, polls,
                   last_poll, poll_res, start_data, posts, downloads, fallback_calls>>

\* What the server may answer to the export start; the request may also
\* raise (connection error, a body that is not JSON).
StartResponses ==
    {[raises |-> TRUE, code |-> 0, rq_id |-> FALSE, result_url |-> FALSE]}
    \cup {[raises |-> FALSE, code |-> c, rq_id |-> FALSE, result_url |-> FALSE] :
             c \in {200, 400, 500}}
    \cup {[raises |-> FALSE, code |-> 202, rq_id |-> a, result_url |-> b] :
             a \in BOOLEAN, b \in BOOLEAN}

\* r.status_code != 202
StartRefused(resp) == resp.code # 202

\* data = start_export(...), then the checks of data.get("error") and rq_id.
StartExport ==
    /\ ex_pc = "export"
    /\ posts' = posts + 1
    /\ \E resp \in StartResponses :
          IF resp.raises
          THEN ex_pc' = "raised" /\ UNCHANGED start_data
          ELSE IF StartRefused(resp)
          THEN ex_pc' = "fallback" /\ UNCHANGED start_data
          ELSE /\ start_data' = [rq_id |-> resp.rq_id, result_url |-> resp.result_url]
               /\ ex_pc' = IF resp.rq_id THEN "polling" ELSE "fallback"
    /\ UNCHANGED <<blur_vars, entry, no_skip, zip, fallback_zip, max_polls, polls,
                   last_poll, poll_res, downloads, fallback_calls>>

\* What the server may answer to a status request.
PollResponses ==
    {[raises |-> TRUE, code |-> 0, status |-> "none", result_url |-> FALSE]}
    \cup {[raises |-> FALSE, code |-> c, status |-> st, result_url |-> u] :
             c \in {200, 503}, st \in {"queued", "started", "finished", "failed"},
             u \in BOOLEAN}

\* The outcome of one pass of the polling loop for a response: "not_ok" and
\* "ok" return from poll_request, "again" sleeps and goes on.
PollOutcome(resp) ==
    IF resp.code # 200 THEN "not_ok"
    ELSE IF resp.status = "finished" THEN "ok"
    ELSE IF resp.status = "failed" THEN "not_ok"
    ELSE "again"

\* A loop that runs once more than its limit.
MayPollOneMore(n, limit) == n <= limit

\* for poll in range(1, max_polls + 1)
MayPoll(n, limit) == n < limit

\* One pass of the polling loop: the status request and what follows from
\* the answer (a non-200 answer breaks out to the return of line 130).
Poll ==
    /\ ex_pc = "polling"
    /\ MayPoll(polls, max_polls)
    /\ polls' = polls + 1
    /\ \E resp \in PollResponses :
          IF resp.raises
          THEN ex_pc' = "raised" /\ UNCHANGED <<last_poll, poll_res>>
          ELSE /\ last_poll' = [code |-> resp.code, status |-> resp.status,
                                result_url |-> resp.result_url]
               /\ IF PollOutcome(resp) = "again"
                  THEN UNCHANGED <<ex_pc, poll_res>>
                  ELSE ex_pc' = "polled" /\ poll_res' = PollOutcome(resp)
    /\ UNCHANGED <<blur_vars, entry, no_skip, zip, fallback_zip, max_polls, start_data,
                   posts, downloads, fallback_calls>>

\* The polling loop has run max_polls times: "Export timed out or status
\* unknown".
PollExhausted ==
    /\ ex_pc = "polling"
    /\ ~MayPoll(polls, max_polls)
    /\ ex_pc' = "polled"
    /\ poll_res' = "not_ok"
    /\ UNCHANGED <<blur_vars, entry, no_skip, zip, fallback_zip, max_polls, polls,
                   last_poll, start_data, posts, downloads, fallback_calls>>

\* A result_url taken to be known whatever the answers held.
HasResultUrlAlways(start, poll) == TRUE

\* result_url of the export start or, failing that, of the finished poll.
HasResultUrl(start, poll) == start.result_url \/ poll.result_url

\* process_task after poll_request has returned: the fallback when polling
\* was not ok or no result_url is known, the download otherwise.
HandlePollResult ==
    /\ entry = "process_task"
    /\ ex_pc = "polled"
    /\ ex_pc' = IF poll_res # "ok" THEN "fallback"
                ELSE IF HasResultUrl(start_data, last_poll) THEN "download"
                ELSE "fallback"
    /\ UNCHANGED <<blur_vars, entry, no_skip, zip, fallback_zip, max_polls, polls,
                   last_poll, poll_res, start_data, posts, downloads, fallback_calls>>

\* download_to(session, result_url, zip_path): saved, refused with a status
\* other than 200, or an error raised before or while the file is written.
DownloadOutcomes == {"saved", "refused", "raised_early", "raised_midway"}

Download ==
    /\ ex_pc = "download"
    /\ downloads' = downloads + 1
    /\ \E res \in DownloadOutcomes :
          /\ ex_pc' = IF res = "saved" THEN "returned"
                      ELSE IF res = "refused" THEN "fallback"
                      ELSE "raised"
          /\ zip' = IF res = "saved" THEN "new"
                    ELSE IF res = "raised_midway" THEN "partial"
                    ELSE zip
    /\ UNCHANGED <<blur_vars, entry, no_skip, fallback_zip, max_polls, polls, last_poll,
                   poll_res, start_data, posts, fallback_calls>>

\* checker_fallbacks: the direct GET, then the scan of recent requests; each
\* catches its own errors, so the call returns.
CheckerFallbacks ==
    /\ ex_pc = "fallback"
    /\ fallback_calls' = fallback_calls + 1
    /\ \E direct \in {"saved", "refused", "error"}, scan \in {"saved", "nothing", "error"} :
          fallback_zip' = IF direct = "saved" \/ scan = "saved" THEN "new"
                          ELSE IF direct = "error" \/ scan = "error" THEN "partial"
                          ELSE fallback_zip
    /\ ex_pc' = "returned"
    /\ UNCHANGED <<blur_vars, entry, no_skip, zip, max_polls, polls, last_poll, poll_res,
                   start_data, posts, downloads>>

ExportNext ==
    \/ SkipCheck
    \/ StartExport
    \/ Poll
    \/ PollExhausted
    \/ HandlePollResult
    \/ Download
    \/ CheckerFallbacks

ExportSpec == ExportInit /\ [][ExportNext]_vars

\* ============================================================= properties
\* The source of the triplet being processed, and the index entry of a frame.
CurVideo == files[idx + 1].video
IndexEntry(i) == IF i \in DOMAIN annotations THEN annotations[i] ELSE <<>>
CurRegion == IndexEntry(frame_idx)[r]
AtRegion == pv_pc = "regions" /\ r <= Len(IndexEntry(frame_idx))

\* The frame the pipeline is to write for a frame read: the regions of its
\* index entry applied in order.
RECURSIVE ApplyRegions(_, _)
ApplyRegions(regs, f) ==
    IF regs = <<>> THEN f
    ELSE ApplyRegions(Tail(regs), RegionStep(Head(regs), f).frame)

\* C1: no failure of a triplet aborts the batch or leaves process_video as
\* an error: every triplet the loop has passed is counted exactly once, as a
\* success or as a failure, and the run never ends by an uncaught error.
C1_FailureNeverAbortsBatch ==
    /\ pv_pc # "raised"
    /\ main_pc # "crashed"
    /\ main_pc = "loop" => success_count + failure_count = idx

\* C2: whenever control is outside the frame loop of process_video (before a
\* call, after a return, after an error), no decoder or encoder handle is open.
C2_HandlesReleasedOnExit ==
    pv_pc \in {"idle", "returned", "raised"} => ~cap_open /\ ~out_open

\* C3: every frame read is written exactly once and in read order: nothing
\* is written that was not read, each write is the redacted result of the
\* frame read at that position, a call that has ended has written every
\* frame it read, and a call that returned True has written as many frames
\* as the source holds.
C3_EveryFrameWrittenOnce ==
    /\ Len(written) <= nread
    /\ \A i \in 1 .. Len(written) :
          written[i] = ApplyRegions(IndexEntry(i - 1), CurVideo[i])
    /\ pv_pc \in {"returned", "raised"} => Len(written) = nread
    /\ (pv_pc = "returned" /\ ret) => Len(written) = Len(CurVideo)

\* C4: when the batch loop has finished over N triplets, success_count +
\* failure_count = N, success_count is the number of calls that returned
\* True, and the exit status is non-zero exactly if a triplet failed.
C4_BatchReport ==
    main_pc = "done" =>
        /\ n_tasks = Len(files)
        /\ success_count + failure_count = n_tasks
        /\ success_count = true_returns
        /\ (exit_status # 0) <=> (failure_count > 0)

C4_Witness ==
    main_pc = "done" /\ n_tasks = 3 /\ success_count = 1 /\ failure_count = 2

\* C5: a triplet whose input video or annotation file is missing makes
\* process_video return False without opening a handle, the batch loop
\* counts it as one failure and goes on; three triplets of which only the
\* second lacks its input end with 2 successes, 1 failure and a non-zero
\* exit status.
ScenarioE ==
    /\ Len(files) = 3
    /\ argc = 10
    /\ files[1] = GoodTriplet
    /\ ~files[2].input_exists
    /\ files[3] = GoodTriplet

C5_MissingFileFailsOnlyItsTriplet ==
    /\ [][(main_pc = "loop" /\ idx < n_tasks
             /\ (~files[idx + 1].input_exists \/ ~files[idx + 1].xml_exists))
          => (/\ pv_pc' = "returned"
              /\ ret' = FALSE
              /\ main_pc' = "calling"
              /\ opens' = opens
              /\ ~cap_open' /\ ~out_open')]_vars
    /\ [][(main_pc = "calling" /\ pv_pc = "returned" /\ ~ret)
          => (/\ main_pc' = "loop"
              /\ idx' = idx + 1
              /\ failure_count' = failure_count + 1
              /\ success_count' = success_count)]_vars
    /\ []((ScenarioE /\ main_pc = "done")
          => (success_count = 2 /\ failure_count = 1 /\ exit_status # 0))

C5_Witness == ScenarioE /\ main_pc = "done" /\ opens = 4

\* C6: a region whose occluded flag is 1 is skipped: its iteration leaves
\* the frame and processed_regions unchanged, and a frame whose regions are
\* all occluded is written identical to the frame read.
AllOccluded(i) ==
    /\ i \in DOMAIN annotations
    /\ \A j \in 1 .. Len(annotations[i]) : annotations[i][j].occluded = 1

C6_OccludedRegionSkipped ==
    /\ [][(AtRegion /\ CurRegion.occluded = 1)
          => (/\ frame' = frame
              /\ processed_regions' = processed_regions
              /\ pv_pc' = "regions"
              /\ r' = r + 1)]_vars
    /\ [](\A i \in 1 .. Len(written) : AllOccluded(i - 1) => written[i] = CurVideo[i])

C6_Witness ==
    /\ Len(written) >= 1
    /\ AllOccluded(0)
    /\ processed_regions = 0

\* C7: a frame whose index has no entry in the annotation index is written
\* identical to the frame read.
C7_UnannotatedFrameIdentical ==
    \A i \in 1 .. Len(written) :
        (i - 1) \notin DOMAIN annotations => written[i] = CurVideo[i]

C7_Witness ==
    /\ Len(written) = 1
    /\ 0 \notin DOMAIN annotations
    /\ 1 \in DOMAIN annotations
    /\ Len(CurVideo) = 2

\* C8 (as stated): no pixel inside the area of an occluded region differs
\* between the frame read and the frame written, whatever else is annotated
\* on the frame.
C8_OccludedAreaUntouched ==
    \A i \in 1 .. Len(written) :
        \A j \in 1 .. Len(IndexEntry(i - 1)) :
            IndexEntry(i - 1)[j].occluded = 1 =>
                \A p \in RegionMask(IndexEntry(i - 1)[j]) : written[i][p] = CurVideo[i][p]

\* The pixels covered by the non-occluded regions of a frame's index entry.
UnoccludedArea(i) ==
    UNION {RegionMask(IndexEntry(i)[j]) :
              j \in {n \in 1 .. Len(IndexEntry(i)) : IndexEntry(i)[n].occluded # 1}}

\* C8 (amended): a pixel inside the area of an occluded region is identical
\* in the frame read and the frame written unless it lies inside the mask of
\* a non-occluded region of the same frame.
C8_OccludedAreaOutsideUnoccluded ==
    \A i \in 1 .. Len(written) :
        \A j \in 1 .. Len(IndexEntry(i - 1)) :
            IndexEntry(i - 1)[j].occluded = 1 =>
                \A p \in RegionMask(IndexEntry(i - 1)[j]) \ UnoccludedArea(i - 1) :
                    written[i][p] = CurVideo[i][p]

C8_Witness ==
    /\ Len(written) >= 1
    /\ \E j \in 1 .. Len(IndexEntry(0)) :
          /\ IndexEntry(0)[j].occluded = 1
          /\ RegionMask(IndexEntry(0)[j]) \ UnoccludedArea(0) # {}
          /\ \E q \in RegionMask(IndexEntry(0)[j]) \cap UnoccludedArea(0) :
                written[1][q] # CurVideo[1][q]

\* C9: for a non-occluded region whose bounding extent is strictly positive
\* in both dimensions, the kernel size handed to the blur is odd and at
\* least 1.
C9_KernelOddPositive ==
    [][(/\ AtRegion
        /\ CurRegion.occluded # 1
        /\ BoundingExtent(CurRegion)[1] > 0
        /\ BoundingExtent(CurRegion)[2] > 0)
       => (last_k' >= 1 /\ last_k' % 2 = 1)]_vars

C9_Witness ==
    /\ pv_pc = "regions"
    /\ r = 2
    /\ processed_regions = 1
    /\ last_k = 7

\* C10: every kernel size handed to the blur is at least 1, whatever the
\* shape (last_k = 0 stands for no blur so far).
C10_KernelAtLeastOne == last_k # 0 => last_k >= 1

\* A step of the region loop that blurs and composites the current region.
BlursRegion == AtRegion /\ processed_regions' = processed_regions + 1

\* floor(35 * m / (100 * unit)), plus 1 when even, for m counted in 1/unit.
OddFloorKernel(m, unit) ==
    LET k == (35 * m) \div (100 * unit)
    IN  IF k % 2 = 0 THEN k + 1 ELSE k

\* The integer part of the double product 0.35 * m, plus 1 when even, for
\* 0 <= m < 1300.
OddDoubleKernel(m) ==
    LET q == (35 * m) \div 100
        k == IF m \in {180, 340, 360, 660, 680, 700, 720} THEN q - 1 ELSE q
    IN  IF k % 2 = 0 THEN k + 1 ELSE k

\* The bounding extent in tenths, the ellipse's as (2 * rx, 2 * ry) of the
\* radii as annotated.
ExtentOfAnnotatedRadii(region) ==
    IF region.type = "ellipse" THEN <<2 * region.rx, 2 * region.ry>>
    ELSE <<10 * BoundingExtent(region)[1], 10 * BoundingExtent(region)[2]>>

\* C11 (as stated): a blurred region's kernel size is floor(0.35 * max(w, h)),
\* plus 1 when even, with (w, h) = (2 * rx, 2 * ry) for an ellipse.
C11_KernelFromAnnotatedExtent ==
    [][BlursRegion =>
          last_k' = OddFloorKernel(Max(ExtentOfAnnotatedRadii(CurRegion)[1],
                                       ExtentOfAnnotatedRadii(CurRegion)[2]), 10)]_vars

\* The bounding extent with the ellipse's radii truncated to integers first.
ExtentOfTruncatedRadii(region) ==
    IF region.type = "box"
    THEN <<Max(0, Min(region.x2, Width - 1)) - Max(0, Min(region.x1, Width - 1)),
           Max(0, Min(region.y2, Height - 1)) - Max(0, Min(region.y1, Height - 1))>>
    ELSE IF region.type = "ellipse"
    THEN <<2 * TruncDiv(region.rx, 10), 2 * TruncDiv(region.ry, 10)>>
    ELSE LET xs == {region.points[i][1] : i \in 1 .. Len(region.points)}
             ys == {region.points[i][2] : i \in 1 .. Len(region.points)}
         IN  <<MaxOf(xs) - MinOf(xs), MaxOf(ys) - MinOf(ys)>>

\* C11 (amended): a blurred region's kernel size is the integer part of
\* 0.35 * max(w, h) as computed in double precision (floor(0.35 * max(w, h))
\* except at extents such as 180, 340 and 360, where it is one less), plus 1
\* when that value is even, with (w, h) the clamped (x2 - x1, y2 - y1) of a
\* box, (2 * int(rx), 2 * int(ry)) of an ellipse and the span of a polygon's
\* points; a polygon spanning 30 by 40 gets 15.
C11_KernelFromTruncatedExtent ==
    [][BlursRegion =>
          last_k' = OddDoubleKernel(Max(ExtentOfTruncatedRadii(CurRegion)[1],
                                        ExtentOfTruncatedRadii(CurRegion)[2]))]_vars

C11_Witness ==
    /\ pv_pc = "regions"
    /\ r = 2
    /\ processed_regions = 1
    /\ IndexEntry(0)[1].type = "polygon"
    /\ BoundingExtent(IndexEntry(0)[1]) = <<30, 40>>
    /\ last_k = 15

\* The current region is a non-occluded box or polygon (with at least one
\* point) whose width or height, after clamping for a box, is not positive.
DegenerateRegion ==
    /\ AtRegion
    /\ CurRegion.occluded # 1
    /\ \/ CurRegion.type = "box"
       \/ CurRegion.type = "polygon" /\ CurRegion.points # <<>>
    /\ \/ BoundingExtent(CurRegion)[1] <= 0
       \/ BoundingExtent(CurRegion)[2] <= 0

\* C12: a box or polygon whose (clamped, for a box) width or height is not
\* positive is skipped: the loop moves to the next region without an error,
\* no blur is computed, the frame is unchanged and processed_regions is not
\* incremented.
C12_DegenerateRegionSkipped ==
    [][DegenerateRegion
       => (/\ frame' = frame
           /\ processed_regions' = processed_regions
           /\ last_k' = last_k
           /\ pv_pc' = "regions"
           /\ r' = r + 1)]_vars

C12_Witness ==
    /\ Len(written) = 1
    /\ Len(IndexEntry(0)) = 1
    /\ IndexEntry(0)[1].type = "box"
    /\ IndexEntry(0)[1].occluded = 0
    /\ BoundingExtent(IndexEntry(0)[1])[1] <= 0
    /\ BoundingExtent(IndexEntry(0)[1])[2] > 0
    /\ written[1] = CurVideo[1]
    /\ processed_regions = 0
    /\ last_k = 0

\* A non-occluded ellipse annotated with rx = 0 and ry = 0.
ZeroEllipse(region) ==
    /\ region.type = "ellipse"
    /\ region.occluded # 1
    /\ region.rx = 0
    /\ region.ry = 0

\* C13: processing a non-occluded ellipse with rx = 0 and ry = 0 does not
\* fail and leaves the frame as it was, and a frame whose only region is
\* such an ellipse is written identical to the frame read.
C13_ZeroEllipseNoOp ==
    /\ [][(AtRegion /\ ZeroEllipse(CurRegion))
          => (/\ frame' = frame
              /\ pv_pc' = "regions"
              /\ main_pc' = main_pc
              /\ r' = r + 1)]_vars
    /\ [](\A i \in 1 .. Len(written) :
             (Len(IndexEntry(i - 1)) = 1 /\ ZeroEllipse(IndexEntry(i - 1)[1]))
                => written[i] = CurVideo[i])

C13_Witness ==
    /\ Len(written) = 1
    /\ Len(IndexEntry(0)) = 1
    /\ ZeroEllipse(IndexEntry(0)[1])
    /\ RegionMask(IndexEntry(0)[1]) # {}
    /\ written[1] = CurVideo[1]
    /\ last_k = 1

\* The annotation document of the triplet being processed, and whether its
\* index is built.
CurDoc == files[idx + 1].doc
InFrameLoop == pv_pc \in {"loop_head", "regions"}

\* The regions of frame i in the order of the document: track after track,
\* element after element.
RECURSIVE FlattenTracks(_)
FlattenTracks(tracks) ==
    IF tracks = <<>> THEN <<>> ELSE Head(tracks) \o FlattenTracks(Tail(tracks))

RegionsOf(elements, i) ==
    LET OnFrame(e) == e.frame = i
        sel == SelectSeq(elements, OnFrame)
    IN  [j \in 1 .. Len(sel) |-> ParseElement(sel[j])]

InDocumentOrder(i) == RegionsOf(FlattenTracks(CurDoc.tracks), i)

\* C14 (as stated): the index entry of every frame lists the frame's regions
\* in document order, whatever their shape or track, and the frame written
\* is the result of applying them in that order.
C14_RegionsInDocumentOrder ==
    InFrameLoop =>
        /\ \A i \in DOMAIN annotations : annotations[i] = InDocumentOrder(i)
        /\ \A i \in 1 .. Len(written) :
              written[i] = ApplyRegions(InDocumentOrder(i - 1), CurVideo[i])

\* The regions of frame i track after track, and within a track the boxes
\* before the ellipses before the polygons, each kind in document order.
RECURSIVE InTrackAndShapeOrder(_, _)
InTrackAndShapeOrder(tracks, i) ==
    IF tracks = <<>> THEN <<>>
    ELSE LET IsBox(e) == e.tag = "box"
             IsEllipse(e) == e.tag = "ellipse"
             IsPolygon(e) == e.tag = "polygon"
         IN  RegionsOf(SelectSeq(Head(tracks), IsBox), i)
             \o RegionsOf(SelectSeq(Head(tracks), IsEllipse), i)
             \o RegionsOf(SelectSeq(Head(tracks), IsPolygon), i)
             \o InTrackAndShapeOrder(Tail(tracks), i)

\* C14 (amended): the index entry of every frame lists the frame's regions
\* track after track in document order and, within one track, boxes before
\* ellipses before polygons, each kind in document order; the frame loop
\* applies them in that order.
C14_RegionsInTrackAndShapeOrder ==
    InFrameLoop =>
        /\ \A i \in DOMAIN annotations :
              annotations[i] = InTrackAndShapeOrder(CurDoc.tracks, i)
        /\ \A i \in 1 .. Len(written) :
              written[i] = ApplyRegions(InTrackAndShapeOrder(CurDoc.tracks, i - 1),
                                        CurVideo[i])

\* An ellipse stands before a box of the same frame in one track, both are
\* composited, and the order of compositing shows in the frame written.
C14_Witness ==
    /\ InFrameLoop
    /\ Len(written) >= 1
    /\ Len(CurDoc.tracks) = 1
    /\ Len(InDocumentOrder(0)) = 2
    /\ InDocumentOrder(0)[1].type = "ellipse"
    /\ IndexEntry(0)[1].type = "box"
    /\ written[1] # ApplyRegions(InDocumentOrder(0), CurVideo[1])

\* C15: compositing one region changes only the pixels of its mask: a pixel
\* where the mask is set takes the value of the blurred copy of the frame as
\* it was before the region, every other pixel keeps its value.
C15_CompositeOnlyInsideMask ==
    [][BlursRegion =>
          \A p \in Pixels :
              frame'[p] = IF p \in RegionMask(CurRegion)
                          THEN GaussianBlur(frame, last_k')[p]
                          ELSE frame[p]]_vars

\* The first region of the frame has been composited: a pixel of its mask
\* has changed and a pixel outside it has kept a value the blur would have
\* changed.
C15_Witness ==
    /\ pv_pc = "regions"
    /\ r = 2
    /\ processed_regions = 1
    /\ \E p \in RegionMask(IndexEntry(frame_idx)[1]) :
          frame[p] # CurVideo[nread][p]
    /\ \E q \in Pixels \ RegionMask(IndexEntry(frame_idx)[1]) :
          /\ frame[q] = CurVideo[nread][q]
          /\ GaussianBlur(CurVideo[nread], last_k)[q] # CurVideo[nread][q]

\* The pixels cv2.rectangle is asked to fill for the corners it is handed.
AddressedByRectangle(b) == (b.x1 .. b.x2) \X (b.y1 .. b.y2)

\* C16: the four coordinates of a box, as clamped before rasterization, lie
\* in [0, width-1] and [0, height-1], and the rectangle filled for them
\* addresses no pixel outside the frame.
C16_BoxClampedIntoFrame ==
    (AtRegion /\ CurRegion.type = "box") =>
        /\ ClipBox(CurRegion).x1 \in 0 .. Width - 1
        /\ ClipBox(CurRegion).x2 \in 0 .. Width - 1
        /\ ClipBox(CurRegion).y1 \in 0 .. Height - 1
        /\ ClipBox(CurRegion).y2 \in 0 .. Height - 1
        /\ AddressedByRectangle(ClipBox(CurRegion)) \subseteq Pixels

\* A box reaching beyond the frame on the left, right and bottom has been
\* blurred.
C16_Witness ==
    /\ pv_pc = "regions"
    /\ r = 2
    /\ processed_regions = 1
    /\ IndexEntry(frame_idx)[1].type = "box"
    /\ IndexEntry(frame_idx)[1].x1 < 0
    /\ IndexEntry(frame_idx)[1].x2 > Width - 1
    /\ IndexEntry(frame_idx)[1].y2 > Height - 1
    /\ frame # CurVideo[nread]

\* C17: compositing is idempotent: once a region has been composited,
\* rasterizing its mask and compositing the same blurred copy into the
\* resulting frame again yields that frame.
C17_CompositeIdempotent ==
    [][BlursRegion =>
          Composite(RegionMask(CurRegion), GaussianBlur(frame, last_k'), frame')
              = frame']_vars

\* The first region of the frame has been composited and has changed the
\* frame; compositing its blurred copy again changes nothing more.
C17_Witness ==
    /\ pv_pc = "regions"
    /\ r = 2
    /\ processed_regions = 1
    /\ frame # CurVideo[nread]
    /\ Composite(RegionMask(IndexEntry(frame_idx)[1]),
                 GaussianBlur(CurVideo[nread], last_k), frame) = frame
    /\ GaussianBlur(frame, last_k) # frame

\* The argument vector has length 1 + 3 * N for some N >= 1.
WholeTriplets == \E N \in 1 .. argc : argc = 1 + 3 * N

\* C18: once main has looked at the argument vector, a vector of length
\* 1 + 3 * N with N >= 1 is accepted, and any other length ends the run with
\* a non-zero status and nothing processed: process_video is never called,
\* no handle is opened, no frame is read or written.
C18_ArgvAcceptedIffWholeTriplets ==
    main_pc # "start" =>
        IF WholeTriplets
        THEN main_pc # "usage" /\ n_tasks = (argc - 1) \div 3
        ELSE /\ main_pc = "usage"
             /\ exit_status # 0
             /\ exit_status # -1
             /\ pv_pc = "idle"
             /\ opens = 0
             /\ nread = 0
             /\ written = <<>>
             /\ idx = 0
             /\ success_count + failure_count = 0

\* Five arguments with a processable first triplet are rejected.
C18_Witness ==
    /\ argc = 5
    /\ Len(files) = 1
    /\ InputFound(files[1])
    /\ XmlFound(files[1])
    /\ main_pc = "usage"
    /\ exit_status = 1

\* C19: the frame loop is left only at the end of the stream, by the return
\* of process_video (the total-frame count read when the source was opened
\* plays no part: nothing holds it), and once entered it is left, with
\* process_video returned, whatever the finite source.
C19_LoopEndsAtEndOfStream ==
    /\ [][(InFrameLoop /\ ~InFrameLoop')
          => (nread = Len(CurVideo) /\ pv_pc' = "returned" /\ ret')]_vars
    /\ [](InFrameLoop => <>(pv_pc = "returned"))

\* A region the loop blurs and composites: not occluded and, for a box or a
\* polygon, of positive width and height.
IsComposited(region) ==
    /\ region.occluded # 1
    /\ region.type \in {"box", "polygon"}
          => BoundingExtent(region)[1] > 0 /\ BoundingExtent(region)[2] > 0

\* The number of composited regions among the first n of frame i.
CompositedUpTo(i, n) ==
    Cardinality({j \in 1 .. Min(n, Len(IndexEntry(i))) : IsComposited(IndexEntry(i)[j])})

RECURSIVE CompositedBefore(_)
CompositedBefore(i) ==
    IF i = 0 THEN 0
    ELSE CompositedBefore(i - 1) + CompositedUpTo(i - 1, Len(IndexEntry(i - 1)))

\* C20: frame_idx is 0 when the frame loop starts and equals the number of
\* frames written at every loop head, the frame read k-th is processed with
\* the regions annotated with frame = k, and processed_regions is 0 at the
\* start and counts the regions composited so far: one per composited
\* region of the frames read, none for an occluded or skipped region or for
\* a region of a frame the source never delivered.
C20_CountersMatchFramesAndRegions ==
    /\ [](pv_pc = "loop_head" =>
             /\ frame_idx = Len(written)
             /\ frame_idx = nread
             /\ processed_regions = CompositedBefore(frame_idx))
    /\ [](pv_pc = "regions" =>
             /\ frame_idx = nread - 1
             /\ IndexEntry(frame_idx) = InTrackAndShapeOrder(CurDoc.tracks, frame_idx)
             /\ processed_regions
                   = CompositedBefore(frame_idx) + CompositedUpTo(frame_idx, r - 1))
    /\ []((pv_pc = "returned" /\ ret) =>
             processed_regions = CompositedBefore(Len(CurVideo)))
    /\ [][(main_pc = "loop" /\ pv_pc' = "loop_head")
          => (frame_idx' = 0 /\ processed_regions' = 0)]_vars
    /\ [][AtRegion
          => \/ processed_regions' = processed_regions /\ frame' = frame
             \/ /\ processed_regions' = processed_regions + 1
                /\ IsComposited(CurRegion)
                /\ frame' = Composite(RegionMask(CurRegion),
                                      GaussianBlur(frame, last_k'), frame)]_vars

\* process_video has returned True over a one-frame source whose document
\* holds two regions that are not occluded, one of them for frame 1.
C20_Witness ==
    /\ pv_pc = "returned"
    /\ ret
    /\ Len(CurVideo) = 1
    /\ frame_idx = 1
    /\ processed_regions = 1
    /\ 1 \in DOMAIN annotations
    /\ IsComposited(annotations[1][1])

\* A step in which poll_request issues a status request and gets an answer.
GetsStatus == polls' = polls + 1 /\ ex_pc' # "raised"

\* C21: poll_request issues at most max_polls status requests; it returns
\* ok = True only after an answer with HTTP 200 and status "finished"; an
\* answer with status "failed" and an answer other than HTTP 200 each end
\* the polling at once with ok = False; after max_polls requests without a
\* terminal status it returns ok = False; once it has returned or raised, no
\* further request is issued.
C21_PollingBoundedAndDecided ==
    /\ [](polls <= max_polls)
    /\ [](poll_res = "ok" => last_poll.code = 200 /\ last_poll.status = "finished")
    /\ [][GetsStatus =>
             /\ (last_poll'.code = 200 /\ last_poll'.status = "failed")
                   => (ex_pc' = "polled" /\ poll_res' = "not_ok")
             /\ last_poll'.code # 200
                   => (ex_pc' = "polled" /\ poll_res' = "not_ok")
             /\ (last_poll'.code = 200 /\ last_poll'.status = "finished")
                   => (ex_pc' = "polled" /\ poll_res' = "ok")]_vars
    /\ [][(ex_pc = "polling" /\ polls = max_polls)
          => (ex_pc' = "polled" /\ poll_res' = "not_ok" /\ polls' = polls)]_vars
    /\ [][ex_pc # "polling" => (polls' = polls /\ poll_res' = poll_res)]_vars

\* The default of MAX_POLLS requests has passed without a terminal status
\* and poll_request has returned ok = False.
C21_Witness ==
    /\ entry = "process_task"
    /\ ex_pc = "polled"
    /\ poll_res = "not_ok"
    /\ polls = MAX_POLLS
    /\ max_polls = MAX_POLLS
    /\ last_poll.code = 200
    /\ last_poll.status = "started"

\* process_task is the function called, and it has returned.
TaskReturned == entry = "process_task" /\ ex_pc = "returned"

\* The export was started and the primary route did not save the zip.
PrimaryFailed == posts = 1 /\ zip # "new"

\* C22: in process_task, each failure of the primary route (start refused,
\* no rq_id, polling not ok, no result_url, download refused) leads to one
\* call of checker_fallbacks and then to the return; when the primary
\* download has saved the zip, checker_fallbacks is not called; no call of
\* process_task makes a second call of checker_fallbacks, and an error is
\* raised only by a request of the primary route, never after one of these
\* failures.
C22_FallbackOncePerFailure ==
    /\ [](fallback_calls <= 1)
    /\ [](TaskReturned => (fallback_calls = 1 <=> PrimaryFailed))
    /\ [](zip = "new" => fallback_calls = 0)
    /\ [](ex_pc = "raised" => fallback_calls = 0)
    /\ []((entry = "process_task" /\ ~ENABLED ExportNext)
             => ex_pc \in {"returned", "raised"})
    /\ [][(posts' = posts + 1 /\ ex_pc' # "raised" /\ ~start_data'.rq_id)
          => ex_pc' = "fallback"]_vars
    /\ [][(entry = "process_task" /\ ex_pc = "polled" /\ poll_res = "not_ok")
          => ex_pc' = "fallback"]_vars
    /\ [][(/\ entry = "process_task"
           /\ ex_pc = "polled"
           /\ poll_res = "ok"
           /\ ~start_data.result_url
           /\ ~last_poll.result_url)
          => ex_pc' = "fallback"]_vars
    /\ [][(downloads' = downloads + 1 /\ ex_pc' # "raised" /\ zip' # "new")
          => ex_pc' = "fallback"]_vars
    /\ [][ex_pc = "fallback"
          => (ex_pc' = "returned" /\ fallback_calls' = fallback_calls + 1)]_vars

\* The export finished, its download was refused, and process_task has
\* returned after one call of checker_fallbacks that saved nothing.
C22_Witness ==
    /\ TaskReturned
    /\ poll_res = "ok"
    /\ downloads = 1
    /\ zip = "old"
    /\ fallback_calls = 1
    /\ fallback_zip = "absent"

\* process_task has passed its first check.
PastSkipCheck == entry = "process_task" /\ ex_pc # "start"

\* C23: with skip_if_zip_exists set (no --no-skip-if-zip-exists) and a
\* non-empty export zip in place, process_task returns at once: no export
\* start, no status request, no download, no fallback, and the zip stays as
\* it was; with --no-skip-if-zip-exists the export is started whether or
\* not the zip exists.
C23_ExistingZipSkipsExport ==
    /\ []((PastSkipCheck /\ ~no_skip /\ zip = "old") =>
             /\ ex_pc = "returned"
             /\ posts = 0
             /\ polls = 0
             /\ downloads = 0
             /\ fallback_calls = 0
             /\ fallback_zip = "absent")
    /\ [][(entry = "process_task" /\ ~no_skip /\ zip = "old") => zip' = "old"]_vars
    /\ [][(entry = "process_task" /\ ex_pc = "start" /\ no_skip)
          => ex_pc' = "export"]_vars
    /\ [][ex_pc = "export" => posts' = posts + 1]_vars
    /\ []((PastSkipCheck /\ no_skip /\ ex_pc # "export") => posts = 1)

\* process_task has returned on an existing zip with the flag left alone.
C23_Witness ==
    /\ TaskReturned
    /\ ~no_skip
    /\ zip = "old"
    /\ posts = 0
    /\ ~ENABLED ExportNext

====
